---- MODULE Spec2Model ----
(***************************************************************************)
(* specMech: command engine, valve actuation, clock and NMEA framing.      *)
(*                                                                         *)
(* The repository holds two command engines: commands() with rebootACKd()  *)
(* in "2021-03-08 specMech - Copy/commands.c" and the inline commands() of *)
(* "specMech/main.c".  The variable engine is the build's choice between   *)
(* them; everything else is the firmware's state.                          *)
(*                                                                         *)
(* Characters are one-character strings, NUL is the empty string, and a C  *)
(* string is a sequence of characters.  A handler is computed over a       *)
(* machine record that is threaded through the calls it makes, in the      *)
(* order the C code makes them; a bus transaction's outcome is taken from  *)
(* an oracle F (one fail point per transaction, 0 = every step succeeds).  *)
(***************************************************************************)
EXTENDS Integers, Sequences, FiniteSets, TLC

VARIABLES
    engine,          \* which commands() is linked: "commands.c" or "main.c"
    rebootnack,      \* static uint8_t rebootnack (1 = gate Locked)
    cstack,          \* static uint8_t cstack, index into pcmd
    pcmd,            \* the pcmd[] slot parse_cmd wrote last, with its index n
    olat,            \* output latch of the HIGHCURRENT MCP23008 (the ValveBank)
    specMechErrors,  \* global error bits
    twi,             \* the two-wire bus: "idle" or "started"
    ds3231,          \* the seven time registers of the DS3231
    cmdline,         \* the line the last commands() call took from recv0_buf
    entry,           \* gate and cursor as the last commands() call found them
    trace,           \* what the last commands() call did, in order
    prompt_flag,     \* the flag of the last send_prompt() call of that call
    str,             \* checksum_NMEA: the bytes of its argument
    csm,             \* checksum_NMEA: its position and its locals
    vbefore,         \* set_valves: the latch before the call
    vcall,           \* set_valves: the call's arguments and return value
    adc,             \* read_ADS1115: its position, its arguments and locals
    recv0_buf,       \* the receive buffer: its done flag, lines written, taken
    pc,              \* where main()'s loop is
    peer             \* the main.c build run beside the commands.c build

vars == <<engine, rebootnack, cstack, pcmd, olat, specMechErrors, twi, ds3231,
          cmdline, entry, trace, prompt_flag, str, csm, vbefore, vcall,
          adc, recv0_buf, pc, peer>>

engineVars == <<engine, rebootnack, cstack, pcmd, olat, specMechErrors, twi,
                ds3231, cmdline, entry, trace, prompt_flag>>

-----------------------------------------------------------------------------
(* Program constants                                                       *)

YES == 1
NO == 0
GREATERPROMPT == 0
EXCLAIMPROMPT == 1
ERRORPROMPT == 2
CVALUESIZE == 41
CIDSIZE == 9
CSTACKSIZE == 10

SHUTTERBM == 34
SHUTTEROPEN == 206
SHUTTERCLOSE == 236
LEFTBM == 68
LEFTOPEN == 174
LEFTCLOSE == 234
RIGHTBM == 136
RIGHTOPEN == 110
RIGHTCLOSE == 230
MCP23008ERROR_bm == 1

-----------------------------------------------------------------------------
(* Bounds of the model                                                     *)

\* Bus transactions one commands() call can start whose outcome the oracle
\* decides ("ob" starts four: read, write, read, write).
MaxTx == 4

-----------------------------------------------------------------------------
(* Characters and 8-bit arithmetic                                         *)

NUL == ""

Printable ==
    <<" ", "!", "DQUOTE", "#", "$", "%", "&", "'", "(", ")", "*", "+", ",", "-",
      ".", "/", "0", "1", "2", "3", "4", "5", "6", "7", "8", "9", ":", ";",
      "<", "=", ">", "?", "@", "A", "B", "C", "D", "E", "F", "G", "H", "I",
      "J", "K", "L", "M", "N", "O", "P", "Q", "R", "S", "T", "U", "V", "W",
      "X", "Y", "Z", "[", "BSLASH", "]", "^", "_", "BQUOTE", "a", "b", "c", "d", "e",
      "f", "g", "h", "i", "j", "k", "l", "m", "n", "o", "p", "q", "r", "s",
      "t", "u", "v", "w", "x", "y", "z", "{", "|", "}", "~">>

\* The character's code (ASCII 32..126, NUL = 0).  The double quote and the
\* backslash are held by the tokens DQUOTE and BSLASH, the backquote by BQUOTE.
AsciiCode ==
    [c \in {Printable[i] : i \in 1..Len(Printable)} \cup {NUL} |->
        IF c = NUL THEN 0
        ELSE 31 + (CHOOSE i \in 1..Len(Printable) : Printable[i] = c)]

Ord(c) == AsciiCode[c]

Bit(x, i) == (x \div (2 ^ i)) % 2

AND8(a, b) ==
    LET s[i \in 0..8] == IF i = 8 THEN 0
                         ELSE Bit(a, i) * Bit(b, i) * (2 ^ i) + s[i + 1]
    IN  s[0]

OR8(a, b) ==
    LET s[i \in 0..8] ==
            IF i = 8 THEN 0
            ELSE (IF Bit(a, i) + Bit(b, i) > 0 THEN 2 ^ i ELSE 0) + s[i + 1]
    IN  s[0]

XOR8(a, b) ==
    LET s[i \in 0..8] ==
            IF i = 8 THEN 0
            ELSE ((Bit(a, i) + Bit(b, i)) % 2) * (2 ^ i) + s[i + 1]
    IN  s[0]

\* A value stored into a uint8_t.
U8(x) == x % 256

-----------------------------------------------------------------------------
(* The machine record threaded through a handler                           *)
(*   olat, specMechErrors, twi, ds3231 : as the variables                  *)
(*   ev : the events so far                                                *)
(*   F, fi : the oracle and the number of transactions it has decided      *)
(*   rebootnack, cstack, pcmd : as the variables                           *)
(*   prompt_flag : the flag of the last send_prompt call, -1 before it     *)
(*   reset : reboot() was called                                           *)

\* An event: its kind k ("sentence", "prompt", "parse", "twi", "ret", "call",
\* "reset"), its name a (a string) and its payload b (a sequence).
Ev(k, a, b) == [k |-> k, a |-> a, b |-> b]

Emit(m, e) == [m EXCEPT !.ev = Append(@, e)]

\* The fail point of the transaction that starts now.
FailPoint(m) == IF m.fi < Len(m.F) THEN m.F[m.fi + 1] ELSE 0

NextTx(m) == [m EXCEPT !.fi = @ + 1]

start_TWI(m, dev, ok) ==
    [Emit(m, Ev("twi", "start", <<dev>>)) EXCEPT
        !.twi = IF ok THEN "started" ELSE @]

write_TWI(m, dev) == Emit(m, Ev("twi", "write", <<dev>>))

readlast_TWI(m, dev) == Emit(m, Ev("twi", "readlast", <<dev>>))

read_TWI(m, dev) == Emit(m, Ev("twi", "read", <<dev>>))

stop_TWI(m, dev) ==
    [Emit(m, Ev("twi", "stop", <<dev>>)) EXCEPT !.twi = "idle"]

-----------------------------------------------------------------------------
(* mcp23008.c                                                              *)

MCPError(m) ==
    [m EXCEPT !.specMechErrors = OR8(@, MCP23008ERROR_bm)]

\* The HIGHCURRENT pins are outputs, so GPIO reads back the output latch.
read_MCP23008(m0, dev) ==
    LET f  == FailPoint(m0)
        m  == NextTx(m0)
        a  == start_TWI(m, dev, f # 1)
        b  == write_TWI(a, dev)
        c  == start_TWI(b, dev, f # 3)
        d  == stop_TWI(readlast_TWI(c, dev), dev)
    IN  IF f = 1 THEN [m |-> MCPError(a), ret |-> MCPError(a).specMechErrors, val |-> 0]
        ELSE IF f = 2 THEN [m |-> MCPError(b), ret |-> MCPError(b).specMechErrors, val |-> 0]
        ELSE IF f = 3 THEN [m |-> MCPError(c), ret |-> MCPError(c).specMechErrors, val |-> 0]
        ELSE [m |-> d, ret |-> 0, val |-> d.olat]

\* A failed write leaves the latch as it was.
write_MCP23008(m0, dev, reg, val) ==
    LET f  == FailPoint(m0)
        m  == NextTx(m0)
        a  == start_TWI(m, dev, f # 1)
        b  == write_TWI(a, dev)
        c  == write_TWI(b, dev)
        d  == stop_TWI(c, dev)
    IN  IF f = 1 THEN [m |-> stop_TWI(a, dev), ret |-> 1]
        ELSE IF f = 2 THEN [m |-> stop_TWI(b, dev), ret |-> 1]
        ELSE IF f = 3 THEN [m |-> stop_TWI(c, dev), ret |-> 1]
        ELSE [m |-> IF reg = "OLAT" THEN [d EXCEPT !.olat = val] ELSE d,
              ret |-> 0]

-----------------------------------------------------------------------------
(* pneu.c                                                                  *)

init_PNEU(m) ==
    LET a == write_MCP23008(m, "HIGHCURRENT", "IODIR", 0)
        b == write_MCP23008(a.m, "HIGHCURRENT", "OLAT", 0)
    IN  IF a.ret # 0 THEN a ELSE b

\* The value a driver call returned to its caller.
Returned(m, f, ret) == Emit(m, Ev("ret", f, <<ret>>))

\* return(retval) of set_valves, r the driver call whose value it returns.
set_valves_return(r) ==
    [m |-> Returned(r.m, "set_valves", r.ret), ret |-> r.ret]

\* set_valves writing the action mask alone, the latch's prior bits dropped.
set_valves_write_action(r, bitmap, action) ==
    IF r.ret # 0 THEN set_valves_return(r)
    ELSE set_valves_return(
            write_MCP23008(r.m, "HIGHCURRENT", "OLAT", action))

\* set_valves going on to its write when the read has failed.
set_valves_write_anyway(r, bitmap, action) ==
    set_valves_return(
        write_MCP23008(r.m, "HIGHCURRENT", "OLAT",
                       AND8(OR8(r.val, bitmap), action)))

\* set_valves writing old_state | bitmap, the action mask left out.
set_valves_write_bitmap(r, bitmap, action) ==
    IF r.ret # 0 THEN set_valves_return(r)
    ELSE set_valves_return(
            write_MCP23008(r.m, "HIGHCURRENT", "OLAT", OR8(r.val, bitmap)))

\* set_valves toggling the pair's bits where it should set them.
set_valves_write_toggle(r, bitmap, action) ==
    IF r.ret # 0 THEN set_valves_return(r)
    ELSE set_valves_return(
            write_MCP23008(r.m, "HIGHCURRENT", "OLAT",
                           AND8(XOR8(r.val, bitmap), action)))

\* set_valves after its read_MCP23008 call r.
set_valves_write(r, bitmap, action) ==
    IF r.ret # 0 THEN set_valves_return(r)
    ELSE set_valves_return(
            write_MCP23008(r.m, "HIGHCURRENT", "OLAT",
                           AND8(OR8(r.val, bitmap), action)))

set_valves(m, bitmap, action) ==
    set_valves_write(read_MCP23008(m, "HIGHCURRENT"), bitmap, action)

\* The return values of set_valves are dropped.
close_pneu(m, mech) ==
    CASE mech = "b" ->
            [m |-> set_valves(set_valves(m, LEFTBM, LEFTCLOSE).m,
                              RIGHTBM, RIGHTCLOSE).m,
             ret |-> GREATERPROMPT]
      [] mech = "l" -> [m |-> set_valves(m, LEFTBM, LEFTCLOSE).m,
                        ret |-> GREATERPROMPT]
      [] mech = "r" -> [m |-> set_valves(m, RIGHTBM, RIGHTCLOSE).m,
                        ret |-> GREATERPROMPT]
      [] mech = "s" -> [m |-> set_valves(m, SHUTTERBM, SHUTTERCLOSE).m,
                        ret |-> GREATERPROMPT]
      [] OTHER -> [m |-> m, ret |-> ERRORPROMPT]

\* open_pneu with the shutter's closing mask in its 's' case.
open_pneu_shutter_mask(m, mechanism) ==
    CASE mechanism = "b" ->
            [m |-> set_valves(set_valves(m, LEFTBM, LEFTOPEN).m,
                              RIGHTBM, RIGHTOPEN).m,
             ret |-> GREATERPROMPT]
      [] mechanism = "l" -> [m |-> set_valves(m, LEFTBM, LEFTOPEN).m,
                             ret |-> GREATERPROMPT]
      [] mechanism = "r" -> [m |-> set_valves(m, RIGHTBM, RIGHTOPEN).m,
                             ret |-> GREATERPROMPT]
      [] mechanism = "s" -> [m |-> set_valves(m, SHUTTERBM, SHUTTERCLOSE).m,
                             ret |-> GREATERPROMPT]
      [] OTHER -> [m |-> m, ret |-> ERRORPROMPT]

\* open_pneu with the two actuations of 'b' in the other order.
open_pneu_right_first(m, mechanism) ==
    CASE mechanism = "b" ->
            [m |-> set_valves(set_valves(m, RIGHTBM, RIGHTOPEN).m,
                              LEFTBM, LEFTOPEN).m,
             ret |-> GREATERPROMPT]
      [] mechanism = "l" -> [m |-> set_valves(m, LEFTBM, LEFTOPEN).m,
                             ret |-> GREATERPROMPT]
      [] mechanism = "r" -> [m |-> set_valves(m, RIGHTBM, RIGHTOPEN).m,
                             ret |-> GREATERPROMPT]
      [] mechanism = "s" -> [m |-> set_valves(m, SHUTTERBM, SHUTTEROPEN).m,
                             ret |-> GREATERPROMPT]
      [] OTHER -> [m |-> m, ret |-> ERRORPROMPT]

open_pneu(m, mechanism) ==
    CASE mechanism = "b" ->
            [m |-> set_valves(set_valves(m, LEFTBM, LEFTOPEN).m,
                              RIGHTBM, RIGHTOPEN).m,
             ret |-> GREATERPROMPT]
      [] mechanism = "l" -> [m |-> set_valves(m, LEFTBM, LEFTOPEN).m,
                             ret |-> GREATERPROMPT]
      [] mechanism = "r" -> [m |-> set_valves(m, RIGHTBM, RIGHTOPEN).m,
                             ret |-> GREATERPROMPT]
      [] mechanism = "s" -> [m |-> set_valves(m, SHUTTERBM, SHUTTEROPEN).m,
                             ret |-> GREATERPROMPT]
      [] OTHER -> [m |-> m, ret |-> ERRORPROMPT]

-----------------------------------------------------------------------------
(* C strings                                                               *)

\* The byte at 1-based position p of a NUL-terminated buffer.
Byte(buf, p) == IF p >= 1 /\ p <= Len(buf) THEN buf[p] ELSE NUL

\* The string that starts at index from of the array a (indices 0..n-1): the
\* bytes up to the first NUL, or up to the end of the array when it holds none.
CStr(a, from, n) ==
    LET stops == {i \in from..(n - 1) : a[i] = NUL}
        end   == IF stops = {} THEN n
                 ELSE CHOOSE i \in stops : \A j \in stops : i <= j
    IN  [k \in 1..(end - from) |-> a[from + k - 1]]

-----------------------------------------------------------------------------
(* ds3231.c                                                                *)

HexLower == <<"0", "1", "2", "3", "4", "5", "6", "7", "8", "9",
              "a", "b", "c", "d", "e", "f">>

\* sprintf("%02d") of a register byte: its decimal digits.
Hex02x_decimal(b) == <<HexLower[((b \div 10) % 10) + 1], HexLower[(b % 10) + 1]>>

\* sprintf("%02x") of a register byte.
Hex02x(b) == <<HexLower[(b \div 16) + 1], HexLower[(b % 16) + 1]>>

convert_ds2iso(t) ==
    <<"2", "0">> \o Hex02x(t[7]) \o <<"-">> \o Hex02x(t[6]) \o <<"-">>
      \o Hex02x(t[5]) \o <<"T">> \o Hex02x(t[3]) \o <<":">> \o Hex02x(t[2])
      \o <<":">> \o Hex02x(t[1]) \o <<"Z">>

\* (((hi - 48) << 4) | (lo - 48)) stored into a uint8_t.
BCDPair(hi, lo) == OR8(((Ord(hi) - 48) * 16) % 256, (Ord(lo) - 48) % 256)

\* isotime[k] of the C code is Byte(isotime, k + 1).
convert_iso2ds(isotime) ==
    <<BCDPair(Byte(isotime, 18), Byte(isotime, 19)),
      BCDPair(Byte(isotime, 15), Byte(isotime, 16)),
      BCDPair(Byte(isotime, 12), Byte(isotime, 13)),
      1,
      BCDPair(Byte(isotime, 9), Byte(isotime, 10)),
      BCDPair(Byte(isotime, 6), Byte(isotime, 7)),
      BCDPair(Byte(isotime, 3), Byte(isotime, 4))>>

read_DS3231(m0) ==
    LET f  == FailPoint(m0)
        m  == NextTx(m0)
        a  == start_TWI(m, "DS3231", f # 1)
        b  == write_TWI(a, "DS3231")
        c  == start_TWI(b, "DS3231", f # 3)
        d  == stop_TWI(read_TWI(c, "DS3231"), "DS3231")
    IN  IF f = 1 THEN [m |-> stop_TWI(a, "DS3231"), ret |-> 1, val |-> <<>>]
        ELSE IF f = 2 THEN [m |-> stop_TWI(b, "DS3231"), ret |-> 1, val |-> <<>>]
        ELSE IF f = 3 THEN [m |-> stop_TWI(c, "DS3231"), ret |-> 1, val |-> <<>>]
        ELSE [m |-> d, ret |-> 0, val |-> d.ds3231]

\* A failed write leaves the registers as they were.
write_DS3231(m0, ds3231time) ==
    LET f  == FailPoint(m0)
        m  == NextTx(m0)
        a  == start_TWI(m, "DS3231", f # 1)
        b  == write_TWI(a, "DS3231")
        c  == write_TWI(b, "DS3231")
        d  == stop_TWI(c, "DS3231")
    IN  IF f = 1 THEN [m |-> a, ret |-> 1]
        ELSE IF f = 2 THEN [m |-> b, ret |-> 1]
        ELSE IF f = 3 THEN [m |-> c, ret |-> 1]
        ELSE [m |-> [d EXCEPT !.ds3231 = ds3231time], ret |-> 0]

get_time(m) ==
    LET r == read_DS3231(m)
    IN  IF r.ret # 0
        THEN [m |-> r.m, ret |-> r.ret, isotime |-> <<"DS3231 read error">>]
        ELSE [m |-> r.m, ret |-> 0, isotime |-> convert_ds2iso(r.val)]

put_time(m, isotime) ==
    LET w == write_DS3231(m, convert_iso2ds(isotime))
    IN  [m |-> Emit(w.m, Ev("ret", "put_time", <<w.ret>>)), ret |-> w.ret]

-----------------------------------------------------------------------------
(* nmea.c                                                                  *)

\* "%02X" of the checksum byte.
HexUpper(d) == IF d < 10 THEN 48 + d ELSE 55 + d

\* sprintf(chksum, "*%02X\r\n", checksum).
format_CSM(checksum) ==
    <<42, HexUpper(checksum \div 16), HexUpper(checksum % 16), 13, 10>>

\* A sentence put on USART0: sprintf of the tag and its fields, checksum_NMEA,
\* send_USART.
send_sentence(m, tag, fields) == Emit(m, Ev("sentence", tag, fields))

format_ERR(m) == send_sentence(m, "ERR", <<>>)

-----------------------------------------------------------------------------
(* The parser                                                              *)

\* isaletter knowing the lower-case range only.
isaletter_lower(c) == Ord(c) >= Ord("a") /\ Ord(c) <= Ord("z")

isaletter(c) ==
    \/ (Ord(c) >= Ord("a") /\ Ord(c) <= Ord("z"))
    \/ (Ord(c) >= Ord("A") /\ Ord(c) <= Ord("Z"))

\* A ParsedCMD: cvalue and cid are arrays indexed from 0.
ZeroSlot ==
    [cverb |-> NUL, cobject |-> NUL,
     cvalue |-> [i \in 0..(CVALUESIZE - 1) |-> NUL],
     cid |-> [i \in 0..(CIDSIZE - 1) |-> NUL]]

\* while (!isaletter(*ptr)) { if (*ptr == '\0') return; ptr++; }
RECURSIVE SkipToLetter(_, _)
SkipToLetter(buf, p) ==
    IF isaletter(Byte(buf, p)) \/ Byte(buf, p) = NUL THEN p
    ELSE SkipToLetter(buf, p + 1)

\* The value loop from index i with ptr at p: the slot, ptr, and whether the
\* function returned inside the loop.
RECURSIVE ValueLoop(_, _, _, _)
ValueLoop(buf, p, i, s) ==
    IF i >= CVALUESIZE THEN [s |-> s, p |-> p, returned |-> FALSE]
    ELSE IF Byte(buf, p) = NUL
        THEN [s |-> [s EXCEPT !.cvalue[i] = NUL], p |-> p, returned |-> TRUE]
    ELSE IF Byte(buf, p) = ";"
        THEN [s |-> [s EXCEPT !.cvalue[i] = NUL], p |-> p, returned |-> FALSE]
    ELSE ValueLoop(buf, p + 1, i + 1, [s EXCEPT !.cvalue[i] = Byte(buf, p)])

RECURSIVE IdLoop(_, _, _, _)
IdLoop(buf, p, i, s) ==
    IF i >= CIDSIZE THEN s
    ELSE IF Byte(buf, p) = NUL THEN [s EXCEPT !.cid[i] = NUL]
    ELSE IdLoop(buf, p + 1, i + 1, [s EXCEPT !.cid[i] = Byte(buf, p)])

\* parse_cmd(ptr, n) on the slot's old content.
parse_cmd(buf, old) ==
    LET s0 == [old EXCEPT !.cverb = "?", !.cobject = "?",
                          !.cvalue[0] = NUL, !.cid[0] = NUL]
        pv == SkipToLetter(buf, 1)
        s1 == [s0 EXCEPT !.cverb = Byte(buf, pv)]
        po == SkipToLetter(buf, pv + 1)
        s2 == [s1 EXCEPT !.cobject = Byte(buf, po)]
        v  == ValueLoop(buf, po + 1, 0, s2)
    IN  IF Byte(buf, pv) = NUL THEN s0
        ELSE IF Byte(buf, po) = NUL THEN s1
        ELSE IF v.returned THEN v.s
        ELSE IdLoop(buf, v.p + 1, 0, v.s)

\* cvalue and cid as the C code reads them (strlen, %s): cvalue is followed in
\* the struct by cid, so a cvalue without terminator runs on into cid.
SlotBytes(s) ==
    [i \in 0..(CVALUESIZE + CIDSIZE - 1) |->
        IF i < CVALUESIZE THEN s.cvalue[i] ELSE s.cid[i - CVALUESIZE]]

cvalueStr(s) == CStr(SlotBytes(s), 0, CVALUESIZE + CIDSIZE)

cidStr(s) == CStr(SlotBytes(s), CVALUESIZE, CVALUESIZE + CIDSIZE)

-----------------------------------------------------------------------------
(* ads1115.c                                                               *)

\* The PGA field of the CONFIG register's high byte (bits 3..1): the six gain
\* settings, and one more that none of the switch's cases names.
Gains == {2 * code : code \in 0..5} \cup {14}

\* The MUX field (bits 6..4): the single-ended inputs AIN0..AIN3.
Pins == {16 * mux : mux \in 4..7}

\* The data rate the routine is used with, 128 samples per second.
DataRates == {128}

\* The full-scale range in millivolts the switch on gain selects; the scale
\* factor is this over 32767.  0 in the default case.
ScaleRange(gain) ==
    CASE gain = 10 -> 256
      [] gain = 8 -> 512
      [] gain = 6 -> 1024
      [] gain = 4 -> 2048
      [] gain = 2 -> 4096
      [] gain = 0 -> 6144
      [] OTHER -> 0

\* int value = highbyte << 8 | lowbyte, in the 16-bit int of the target.
Int16(highbyte, lowbyte) ==
    LET u == highbyte * 256 + lowbyte
    IN  IF u >= 32768 THEN u - 65536 ELSE u

\* No line has been received.
NoInput == [done |-> NO, head |-> 0, tail |-> 0]

\* read_ADS1115 is not running.
NoRead ==
    [pc |-> "none", gain |-> 0, confighi |-> 0, configlo |-> 0, flag |-> 0,
     ret |-> "none", voltage |-> "none", failed |-> FALSE]

-----------------------------------------------------------------------------
(* The command engines                                                     *)

\* reboot(): the watchdog resets the processor; nothing of the handler runs
\* after it.
reboot(m) == [Emit(m, Ev("reset", "reboot", <<>>)) EXCEPT !.reset = TRUE]

\* Collaborators whose source is not in the repository's files at hand: the
\* call is recorded.
Call(m, f) == Emit(m, Ev("call", f, <<>>))

\* echo_cmd sending nothing.
echo_cmd_silent(m, line) == m

echo_cmd(m, line) == send_sentence(m, "CMD", <<line>>)

Prompt(m, c) == Emit(m, Ev("prompt", c, <<>>))

\* send_prompt of commands.c: the ERRORPROMPT case is commented out.
send_prompt(m0, flag) ==
    LET m == [m0 EXCEPT !.prompt_flag = flag]
    IN  CASE flag = GREATERPROMPT -> Prompt(m, ">")
          [] flag = EXCLAIMPROMPT -> Prompt(m, "!")
          [] OTHER -> Prompt(m, "!")

\* send_prompt of main.c.
main_send_prompt(m0, flag) ==
    LET m == [m0 EXCEPT !.prompt_flag = flag]
    IN  CASE flag = GREATERPROMPT -> Prompt(m, ">")
          [] flag = ERRORPROMPT -> Prompt(format_ERR(m), ">")
          [] flag = EXCLAIMPROMPT -> Prompt(m, "!")
          [] OTHER -> Prompt(m, "!")

\* report answering a failed clock read with ERRORPROMPT.
report_clock_error_flag(m) ==
    LET object == m.pcmd.s.cobject
        id == cidStr(m.pcmd.s)
        t  == get_time(m)
    IN  CASE object = "B" ->
                [m |-> send_sentence(Call(m, "get_BOOTTIME"), "BTM", <<id>>),
                 ret |-> GREATERPROMPT]
          [] object = "e" ->
                [m |-> send_sentence(Call(Call(m, "get_temperature"),
                                          "get_humidity"), "ENV", <<id>>),
                 ret |-> GREATERPROMPT]
          [] object = "t" ->
                [m |-> send_sentence(t.m, "TIM", <<t.isotime, id>>),
                 ret |-> IF t.ret # 0 THEN ERRORPROMPT ELSE GREATERPROMPT]
          [] object = "v" ->
                [m |-> send_sentence(Call(m, "read_ionpump"), "VAC", <<id>>),
                 ret |-> GREATERPROMPT]
          [] object = "V" ->
                [m |-> send_sentence(Call(m, "get_VERSION"), "VER", <<id>>),
                 ret |-> GREATERPROMPT]
          [] OTHER -> [m |-> m, ret |-> ERRORPROMPT]

report(m) ==
    LET object == m.pcmd.s.cobject
        id == cidStr(m.pcmd.s)
        t  == get_time(m)
    IN  CASE object = "B" ->
                [m |-> send_sentence(Call(m, "get_BOOTTIME"), "BTM", <<id>>),
                 ret |-> GREATERPROMPT]
          [] object = "e" ->
                [m |-> send_sentence(Call(Call(m, "get_temperature"),
                                          "get_humidity"), "ENV", <<id>>),
                 ret |-> GREATERPROMPT]
          [] object = "t" ->
                [m |-> send_sentence(t.m, "TIM", <<t.isotime, id>>),
                 ret |-> GREATERPROMPT]
          [] object = "v" ->
                [m |-> send_sentence(Call(m, "read_ionpump"), "VAC", <<id>>),
                 ret |-> GREATERPROMPT]
          [] object = "V" ->
                [m |-> send_sentence(Call(m, "get_VERSION"), "VER", <<id>>),
                 ret |-> GREATERPROMPT]
          [] OTHER -> [m |-> m, ret |-> ERRORPROMPT]

\* set without its test of the value's length.
set_any_length(m) ==
    IF m.pcmd.s.cobject = "t"
    THEN [m |-> put_time(m, cvalueStr(m.pcmd.s)).m, ret |-> GREATERPROMPT]
    ELSE [m |-> m, ret |-> ERRORPROMPT]

\* set() as it would be if an object it does not know closed the shutter.
set_closes_shutter(m) ==
    LET object == m.pcmd.s.cobject
        value  == cvalueStr(m.pcmd.s)
    IN  IF object = "t"
        THEN IF Len(value) # 19 THEN [m |-> m, ret |-> ERRORPROMPT]
             ELSE [m |-> put_time(m, value).m, ret |-> GREATERPROMPT]
        ELSE close_pneu(m, "s")

\* The return value of put_time is dropped.
set(m) ==
    LET object == m.pcmd.s.cobject
        value  == cvalueStr(m.pcmd.s)
    IN  IF object = "t"
        THEN IF Len(value) # 19 THEN [m |-> m, ret |-> ERRORPROMPT]
             ELSE [m |-> put_time(m, value).m, ret |-> GREATERPROMPT]
        ELSE [m |-> m, ret |-> ERRORPROMPT]

\* parse_cmd(cmdline, cstack) and the reads of cverb and cobject.
Parse(m, line) ==
    [Emit(m, Ev("parse", "parse_cmd", <<m.cstack>>)) EXCEPT
        !.pcmd = [n |-> m.cstack, s |-> parse_cmd(line, ZeroSlot)]]

\* rebootACKd with the rejected line let through: its last branch returns YES.
rebootACKd_through(m, line) ==
    IF m.rebootnack # 0
    THEN IF Byte(line, 1) = "!" /\ Byte(line, 2) = NUL
         THEN [m |-> [send_prompt(Call(m, "init_RTC"), GREATERPROMPT)
                        EXCEPT !.rebootnack = 0],
               ret |-> YES]
         ELSE IF Byte(line, 1) = "!" /\ Byte(line, 2) # NUL
         THEN [m |-> reboot(m), ret |-> NO]
         ELSE [m |-> send_prompt(m, EXCLAIMPROMPT), ret |-> YES]
    ELSE [m |-> m, ret |-> YES]

\* rebootACKd without its test of rebootnack: the gate is applied to every
\* line.
rebootACKd_always(m, line) ==
    IF Byte(line, 1) = "!" /\ Byte(line, 2) = NUL
    THEN [m |-> [send_prompt(Call(m, "init_RTC"), GREATERPROMPT)
                   EXCEPT !.rebootnack = 0],
          ret |-> YES]
    ELSE IF Byte(line, 1) = "!" /\ Byte(line, 2) # NUL
    THEN [m |-> reboot(m), ret |-> NO]
    ELSE [m |-> send_prompt(m, EXCLAIMPROMPT), ret |-> NO]

rebootACKd(m, line) ==
    IF m.rebootnack # 0
    THEN IF Byte(line, 1) = "!" /\ Byte(line, 2) = NUL
         THEN [m |-> [send_prompt(Call(m, "init_RTC"), GREATERPROMPT)
                        EXCEPT !.rebootnack = 0],
               ret |-> YES]
         ELSE IF Byte(line, 1) = "!" /\ Byte(line, 2) # NUL
         THEN [m |-> reboot(m), ret |-> NO]
         ELSE [m |-> send_prompt(m, EXCLAIMPROMPT), ret |-> NO]
    ELSE [m |-> m, ret |-> YES]

\* commands() of commands.c on the line get_cmdline() copied.
\* The end of commands() with the cursor's modulus one too large.
commands_prompt_wide(d) ==
    send_prompt([d.m EXCEPT !.cstack = (@ + 1) % (CSTACKSIZE + 1)], d.ret)

\* The end of commands(): d is the dispatched call and its prompt_flag.
commands_prompt(d) ==
    send_prompt([d.m EXCEPT !.cstack = (@ + 1) % CSTACKSIZE], d.ret)

\* The switch of commands() on pcmd[cstack].cverb, p the machine after
\* parse_cmd.
commands_switch(p) ==
    CASE p.pcmd.s.cverb = "c" ->
            commands_prompt(close_pneu(p, p.pcmd.s.cobject))
      [] p.pcmd.s.cverb = "o" ->
            commands_prompt(open_pneu(p, p.pcmd.s.cobject))
      [] p.pcmd.s.cverb = "m" ->
            commands_prompt([m |-> Call(p, "ROBOMove"), ret |-> GREATERPROMPT])
      [] p.pcmd.s.cverb = "r" -> commands_prompt(report(p))
      [] p.pcmd.s.cverb = "s" -> commands_prompt(set(p))
      [] p.pcmd.s.cverb = "t" ->
            commands_prompt([m |-> Call(p, "testroutine"),
                             ret |-> GREATERPROMPT])
      [] p.pcmd.s.cverb = "R" -> reboot(send_prompt(p, GREATERPROMPT))
      [] OTHER -> commands_prompt([m |-> p, ret |-> GREATERPROMPT])

\* commands() after rebootACKd() returned g.
commands_echo(g, line) ==
    IF g.ret = NO THEN g.m
    ELSE IF Len(line) = 0
        THEN send_prompt(echo_cmd(g.m, line), GREATERPROMPT)
    ELSE commands_switch(Parse(echo_cmd(g.m, line), line))

\* commands() of commands.c on the line get_cmdline() copied.
commands(m0, line) == commands_echo(rebootACKd(m0, line), line)

\* commands() of main.c on the line it copied from recv0_buf.
\* The end of main.c's commands(): d is the dispatched call and its
\* prompt_flag.
main_commands_prompt(d) ==
    main_send_prompt([d.m EXCEPT !.cstack = (@ + 1) % CSTACKSIZE], d.ret)

\* The switch of main.c's commands(), p the machine after parse_cmd.
main_commands_switch(p) ==
    CASE p.pcmd.s.cverb = "c" ->
            main_commands_prompt(close_pneu(p, p.pcmd.s.cobject))
      [] p.pcmd.s.cverb = "o" ->
            main_commands_prompt(open_pneu(p, p.pcmd.s.cobject))
      [] p.pcmd.s.cverb = "r" -> main_commands_prompt(report(p))
      [] p.pcmd.s.cverb = "s" -> main_commands_prompt(set(p))
      [] p.pcmd.s.cverb = "R" -> reboot(p)
      [] OTHER -> main_commands_prompt([m |-> p, ret |-> ERRORPROMPT])

\* commands() of main.c on the line it copied from recv0_buf.
main_commands(m0, line) ==
    IF m0.rebootnack # 0
    THEN IF Byte(line, 1) # "!"
         THEN main_send_prompt(m0, EXCLAIMPROMPT)
         ELSE [main_send_prompt(m0, GREATERPROMPT) EXCEPT !.rebootnack = 0]
    ELSE main_commands_switch(Parse(echo_cmd(m0, line), line))

-----------------------------------------------------------------------------
(* The state machine                                                       *)

\* Input lines (the bytes before the terminator).
Lines ==
    { <<>>, <<"!">>, <<"!", "x">>, <<"R">>,
      <<"o", "s">>, <<"c", "s">>, <<"o", "z">>, <<"c">>,
      <<"z", "z">>, <<"1", ";">>, <<"m", "a">>, <<"t", "x">>,
      <<"r", "v", ";", "0", "4", "2">>, <<"r", "t">>, <<"r", "q">>,
      <<"s", "t", "2", "0", "2", "1", "-", "0", "1", "-", "2", "4", "T",
        "1", "0", ":", "0", "0", ":", "0", "0">>,
      <<"s", "t", "2", "0", "2", "1", "-", "0", "1", "-", "2", "4", "T",
        "1", "0", ":", "0", "0", ":", "0", "0", "Z">>,
      <<"s", "x">> }

\* Where a transaction can fail: 0 nowhere, k at its k-th bus step (1 the
\* start, 2 the register byte, 3 the repeated start or the data).
FailPoints == 0..3

\* The command engine is run with each transaction succeeding or failing at
\* its second step.
EngineFailPoints == {0, 2}

ZeroOracle == [i \in 1..MaxTx |-> 0]

\* The oracles that decide the first b transactions, over the fail points P.
OracleSet(b, P) ==
    {[i \in 1..MaxTx |-> IF i <= b THEN g[i] ELSE 0] : g \in [1..b -> P]}

Machine(F) ==
    [olat |-> olat, specMechErrors |-> specMechErrors, twi |-> twi,
     ds3231 |-> ds3231, ev |-> <<>>, F |-> F, fi |-> 0,
     rebootnack |-> rebootnack, cstack |-> cstack, pcmd |-> pcmd,
     prompt_flag |-> -1, reset |-> FALSE]

Run(line, F) ==
    IF engine = "commands.c" THEN commands(Machine(F), line)
    ELSE main_commands(Machine(F), line)

\* The transactions the call starts when none fails, and init_PNEU's two
\* after a reset.
TxCount(r) == IF r.reset THEN r.fi + 2 ELSE r.fi

Budget(line) == TxCount(Run(line, ZeroOracle))

Oracles(line) ==
    LET b == Budget(line)
    IN  OracleSet(IF b < MaxTx THEN b ELSE MaxTx, EngineFailPoints)

\* checksum_NMEA is not running.
NoChecksum == [pc |-> "none", i |-> 0, nchar |-> 0, checksum |-> 0]

PowerUpPcmd == [n |-> 0, s |-> ZeroSlot]

PowerUpClock == <<0, 0, 0, 1, 1, 1, 0>>

\* The statics and the devices of the second build after power-up.
PowerUpPeer ==
    [rebootnack |-> 1, cstack |-> 0, pcmd |-> PowerUpPcmd, olat |-> 0,
     specMechErrors |-> 0, twi |-> "idle", ds3231 |-> PowerUpClock,
     trace |-> <<>>, prompt_flag |-> -1]

\* main() up to its loop, after a reset: the statics are initialised again and
\* init_PNEU writes the port expander.
Boot(r) ==
    LET b == init_PNEU([r EXCEPT !.twi = "idle", !.specMechErrors = 0]).m
    IN  [b EXCEPT !.rebootnack = 1, !.cstack = 0, !.pcmd = PowerUpPcmd]

\* The state the handler leaves: q the machine the next call starts from, r
\* the machine at the handler's end.
Store(q, r, line) ==
    /\ rebootnack' = q.rebootnack
    /\ cstack' = q.cstack
    /\ pcmd' = q.pcmd
    /\ olat' = q.olat
    /\ specMechErrors' = q.specMechErrors
    /\ twi' = q.twi
    /\ ds3231' = q.ds3231
    /\ cmdline' = line
    /\ entry' = [rebootnack |-> rebootnack, cstack |-> cstack]
    /\ trace' = r.ev
    /\ prompt_flag' = r.prompt_flag
    /\ UNCHANGED <<engine, str, csm, vbefore, vcall, adc, recv0_buf, pc>>

\* The call r ended: after a reset the next call starts from main()'s
\* start-up.
StoreCall(r, line) == Store(IF r.reset THEN Boot(r) ELSE r, r, line)

Finish(r, line) ==
    /\ StoreCall(r, line)
    /\ UNCHANGED peer

Init ==
    /\ engine \in {"commands.c", "main.c"}
    /\ rebootnack = 1
    /\ cstack = 0
    /\ pcmd = PowerUpPcmd
    /\ olat = 0
    /\ specMechErrors = 0
    /\ twi = "idle"
    /\ ds3231 = PowerUpClock
    /\ cmdline = <<>>
    /\ entry = [rebootnack |-> 1, cstack |-> 0]
    /\ trace = <<>>
    /\ prompt_flag = -1
    /\ str = <<>>
    /\ csm = NoChecksum
    /\ vbefore = 0
    /\ vcall = [verb |-> "", mech |-> "", ok |-> FALSE]
    /\ adc = NoRead
    /\ recv0_buf = NoInput
    /\ pc = "none"
    /\ peer = PowerUpPeer

\* The main loop finds recv0_buf.done set and calls commands().
Commands(line, F) ==
    /\ engine = "commands.c"
    /\ Finish(commands(Machine(F), line), line)

MainCommands(line, F) ==
    /\ engine = "main.c"
    /\ Finish(main_commands(Machine(F), line), line)

Next ==
    \/ \E line \in Lines : \E F \in Oracles(line) : Commands(line, F)
    \/ \E line \in Lines : \E F \in Oracles(line) : MainCommands(line, F)

Spec == Init /\ [][Next]_vars

-----------------------------------------------------------------------------
(* The two builds side by side on the same lines                           *)

\* Lines of the verbs both builds know (c, o, r, s, R) and the gate's lines.
SharedLines ==
    { <<"!">>, <<"!", "x">>, <<"R">>,
      <<"o", "s">>, <<"c", "s">>, <<"o", "z">>,
      <<"r", "t">>, <<"s", "x">> }

\* The machine the main.c build starts a call from.
PeerMachine(F) ==
    [olat |-> peer.olat, specMechErrors |-> peer.specMechErrors,
     twi |-> peer.twi, ds3231 |-> peer.ds3231, ev |-> <<>>, F |-> F, fi |-> 0,
     rebootnack |-> peer.rebootnack, cstack |-> peer.cstack,
     pcmd |-> peer.pcmd, prompt_flag |-> -1, reset |-> FALSE]

\* What the main.c build's call leaves: q the machine the next call starts
\* from, r the machine at the call's end.
PeerStore(q, r) ==
    peer' = [rebootnack |-> q.rebootnack, cstack |-> q.cstack,
             pcmd |-> q.pcmd, olat |-> q.olat,
             specMechErrors |-> q.specMechErrors, twi |-> q.twi,
             ds3231 |-> q.ds3231, trace |-> r.ev,
             prompt_flag |-> r.prompt_flag]

PeerFinish(r) == PeerStore(IF r.reset THEN Boot(r) ELSE r, r)

\* The transactions either build starts on the line when none fails.
BothBudget(line) ==
    LET a == TxCount(commands(Machine(ZeroOracle), line))
        b == TxCount(main_commands(PeerMachine(ZeroOracle), line))
    IN  IF a < b THEN b ELSE a

BothOracles(line) ==
    LET b == BothBudget(line)
    IN  OracleSet(IF b < MaxTx THEN b ELSE MaxTx, EngineFailPoints)

InitBoth ==
    /\ engine = "commands.c"
    /\ rebootnack = 1
    /\ cstack = 0
    /\ pcmd = PowerUpPcmd
    /\ olat = 0
    /\ specMechErrors = 0
    /\ twi = "idle"
    /\ ds3231 = PowerUpClock
    /\ cmdline = <<>>
    /\ entry = [rebootnack |-> 1, cstack |-> 0]
    /\ trace = <<>>
    /\ prompt_flag = -1
    /\ str = <<>>
    /\ csm = NoChecksum
    /\ vbefore = 0
    /\ vcall = [verb |-> "", mech |-> "", ok |-> FALSE]
    /\ adc = NoRead
    /\ recv0_buf = NoInput
    /\ pc = "none"
    /\ peer = PowerUpPeer

\* The same line reaches both builds; each runs its commands() on it, and the
\* devices of both answer alike.
BothCommands(line, F) ==
    /\ StoreCall(commands(Machine(F), line), line)
    /\ PeerFinish(main_commands(PeerMachine(F), line))

NextBoth ==
    \E line \in SharedLines : \E F \in BothOracles(line) : BothCommands(line, F)

SpecBoth == InitBoth /\ [][NextBoth]_vars

-----------------------------------------------------------------------------
(* One actuation from any ValveBank byte                                   *)

Mechs == {"s", "l", "r", "b", "x"}

NoCall == [verb |-> "", mech |-> "", ok |-> FALSE]

InitValves ==
    /\ engine = "commands.c"
    /\ rebootnack = 0
    /\ cstack = 0
    /\ pcmd = PowerUpPcmd
    /\ olat \in 0..255
    /\ specMechErrors = 0
    /\ twi = "idle"
    /\ ds3231 = PowerUpClock
    /\ cmdline = <<>>
    /\ entry = [rebootnack |-> 0, cstack |-> 0]
    /\ trace = <<>>
    /\ prompt_flag = -1
    /\ str = <<>>
    /\ csm = NoChecksum
    /\ vbefore = olat
    /\ vcall = NoCall
    /\ adc = NoRead
    /\ recv0_buf = NoInput
    /\ pc = "none"
    /\ peer = PowerUpPeer

\* open_pneu(mech) or close_pneu(mech); ok: every transaction it started
\* succeeded.
ValveCall(r, verb, mech, F) ==
    /\ olat' = r.m.olat
    /\ specMechErrors' = r.m.specMechErrors
    /\ twi' = r.m.twi
    /\ trace' = r.m.ev
    /\ prompt_flag' = r.ret
    /\ vbefore' = olat
    /\ vcall' = [verb |-> verb, mech |-> mech,
                 ok |-> \A i \in 1..r.m.fi : F[i] = 0]
    /\ UNCHANGED <<engine, rebootnack, cstack, pcmd, ds3231, cmdline,
                   entry, str, csm, adc, recv0_buf, pc, peer>>

Actuated(r, verb, mech, F) ==
    /\ vcall = NoCall
    /\ ValveCall(r, verb, mech, F)

Actuate(verb, mech, F) ==
    Actuated(IF verb = "o" THEN open_pneu(Machine(F), mech)
             ELSE close_pneu(Machine(F), mech), verb, mech, F)

NextValves ==
    \E verb \in {"o", "c"} : \E mech \in Mechs :
        \E F \in (IF mech = "b" THEN OracleSet(4, EngineFailPoints)
                  ELSE OracleSet(2, FailPoints)) :
            Actuate(verb, mech, F)

SpecValves == InitValves /\ [][NextValves]_vars

-----------------------------------------------------------------------------------------------------------------------------------------------------
(* open_pneu and close_pneu called again and again after init_PNEU         *)

\* main() has run init_PNEU: the latch holds 0x00.
InitPairs ==
    /\ engine = "commands.c"
    /\ rebootnack = 0
    /\ cstack = 0
    /\ pcmd = PowerUpPcmd
    /\ olat = 0
    /\ specMechErrors = 0
    /\ twi = "idle"
    /\ ds3231 = PowerUpClock
    /\ cmdline = <<>>
    /\ entry = [rebootnack |-> 0, cstack |-> 0]
    /\ trace = <<>>
    /\ prompt_flag = -1
    /\ str = <<>>
    /\ csm = NoChecksum
    /\ vbefore = 0
    /\ vcall = NoCall
    /\ adc = NoRead
    /\ recv0_buf = NoInput
    /\ pc = "none"
    /\ peer = PowerUpPeer

\* One more open or close command reaches open_pneu or close_pneu.
ActuateNext(verb, mech, F) ==
    ValveCall(IF verb = "o" THEN open_pneu(Machine(F), mech)
              ELSE close_pneu(Machine(F), mech), verb, mech, F)

NextPairs ==
    \E verb \in {"o", "c"} : \E mech \in Mechs :
        \E F \in (IF mech = "b" THEN OracleSet(4, EngineFailPoints)
                  ELSE OracleSet(2, FailPoints)) :
            ActuateNext(verb, mech, F)

SpecPairs == InitPairs /\ [][NextPairs]_vars

-----------------------------------------------------------------------------
(* checksum_NMEA on a string, one loop iteration per step                  *)

\* Lengths of the strings tried: 1..ShortLen, and those within NearWrap of 256,
\* where the 8-bit nchar wraps.
ShortLen == 8
NearWrap == 2

BodyLens == (1..ShortLen) \cup ((256 - NearWrap)..(256 + NearWrap))

\* '$' and n - 1 printable bytes.
Body(n, a, d) ==
    [k \in 1..n |-> IF k = 1 THEN 36 ELSE 33 + ((a + (k - 2) * d) % 94)]

Bodies == {Body(n, a, d) : n \in BodyLens, a \in {0, 11, 50}, d \in {0, 1, 5}}

\* The call with its argument, before the first statement.
InitNMEA ==
    /\ engine = "commands.c"
    /\ rebootnack = 0
    /\ cstack = 0
    /\ pcmd = PowerUpPcmd
    /\ olat = 0
    /\ specMechErrors = 0
    /\ twi = "idle"
    /\ ds3231 = PowerUpClock
    /\ cmdline = <<>>
    /\ entry = [rebootnack |-> 0, cstack |-> 0]
    /\ trace = <<>>
    /\ prompt_flag = -1
    /\ str \in Bodies
    /\ csm = [pc |-> "entry", i |-> 0, nchar |-> 0, checksum |-> 0]
    /\ vbefore = 0
    /\ vcall = NoCall
    /\ adc = NoRead
    /\ recv0_buf = NoInput
    /\ pc = "none"
    /\ peer = PowerUpPeer

\* checksum = 0; nchar = strlen(str); i = 1: nchar and i are uint8_t.
checksum_NMEA_entry ==
    /\ csm.pc = "entry"
    /\ csm' = [pc |-> "for", i |-> 1, nchar |-> U8(Len(str)), checksum |-> 0]
    /\ UNCHANGED engineVars
    /\ UNCHANGED <<str, vbefore, vcall, adc, recv0_buf, pc, peer>>

\* One iteration: checksum ^= str[i]; i++.  str[i] of the C code is str[i + 1]
\* here.
checksum_NMEA_for ==
    /\ csm.pc = "for"
    /\ csm.i < csm.nchar
    /\ csm' = [csm EXCEPT !.checksum = XOR8(@, str[csm.i + 1]),
                          !.i = U8(@ + 1)]
    /\ UNCHANGED engineVars
    /\ UNCHANGED <<str, vbefore, vcall, adc, recv0_buf, pc, peer>>

\* The loop's exit: sprintf and strcat.
checksum_NMEA_strcat ==
    /\ csm.pc = "for"
    /\ ~(csm.i < csm.nchar)
    /\ str' = str \o format_CSM(csm.checksum)
    /\ csm' = [csm EXCEPT !.pc = "return"]
    /\ UNCHANGED engineVars
    /\ UNCHANGED <<vbefore, vcall, adc, recv0_buf, pc, peer>>

NextNMEA ==
    \/ checksum_NMEA_entry
    \/ checksum_NMEA_for
    \/ checksum_NMEA_strcat

SpecNMEA == InitNMEA /\ [][NextNMEA]_vars

-----------------------------------------------------------------------------
(* One open or close line from any ValveBank byte, either engine           *)

ValveLines ==
    {<<verb>> \o object :
        verb \in {"o", "c"},
        object \in {<<>>, <<"s">>, <<"l">>, <<"r">>, <<"b">>, <<"z">>}}

InitDispatch ==
    /\ engine \in {"commands.c", "main.c"}
    /\ rebootnack = 0
    /\ cstack = 0
    /\ pcmd = PowerUpPcmd
    /\ olat \in 0..255
    /\ specMechErrors = 0
    /\ twi = "idle"
    /\ ds3231 = PowerUpClock
    /\ cmdline = <<>>
    /\ entry = [rebootnack |-> 0, cstack |-> 0]
    /\ trace = <<>>
    /\ prompt_flag = -1
    /\ str = <<>>
    /\ csm = NoChecksum
    /\ vbefore = olat
    /\ vcall = NoCall
    /\ adc = NoRead
    /\ recv0_buf = NoInput
    /\ pc = "none"
    /\ peer = PowerUpPeer

\* The main loop calls commands() once on an open or close line.
Dispatch(line, F) ==
    /\ trace = <<>>
    /\ Finish(Run(line, F), line)

NextDispatch ==
    \E line \in ValveLines : \E F \in Oracles(line) : Dispatch(line, F)

SpecDispatch == InitDispatch /\ [][NextDispatch]_vars

-----------------------------------------------------------------------------
(* One report line, either engine                                          *)

ReportLines ==
    {<<"r">> \o object \o id :
        object \in {<<>>, <<"B">>, <<"e">>, <<"t">>, <<"v">>, <<"V">>,
                     <<"q">>},
        id \in {<<>>, <<";", "0", "4", "2">>}}

\* 2021-01-24T10:00:00 in the clock's registers.
SetClock == <<0, 0, 16, 1, 36, 1, 33>>

InitReport ==
    /\ engine \in {"commands.c", "main.c"}
    /\ rebootnack = 0
    /\ cstack \in {0, CSTACKSIZE - 1}
    /\ pcmd = [n |-> cstack, s |-> ZeroSlot]
    /\ olat = 0
    /\ specMechErrors = 0
    /\ twi = "idle"
    /\ ds3231 \in {PowerUpClock, SetClock}
    /\ cmdline = <<>>
    /\ entry = [rebootnack |-> 0, cstack |-> cstack]
    /\ trace = <<>>
    /\ prompt_flag = -1
    /\ str = <<>>
    /\ csm = NoChecksum
    /\ vbefore = olat
    /\ vcall = NoCall
    /\ adc = NoRead
    /\ recv0_buf = NoInput
    /\ pc = "none"
    /\ peer = PowerUpPeer

\* The main loop calls commands() once on a report line.
Report(line, F) ==
    /\ trace = <<>>
    /\ Finish(Run(line, F), line)

NextReport ==
    \E line \in ReportLines : \E F \in Oracles(line) : Report(line, F)

SpecReport == InitReport /\ [][NextReport]_vars

-----------------------------------------------------------------------------
(* read_ADS1115, one bus transaction or loop test per step                 *)

\* The bytes the conversion register is read as.
HighBytes == {0, 127, 128, 255}

LowBytes == {0, 255}

\* The call's entry: the CONFIG bytes are computed, *voltage = BADFLOAT.
InitADC ==
    /\ engine = "main.c"
    /\ rebootnack = 0
    /\ cstack = 0
    /\ pcmd = PowerUpPcmd
    /\ olat = 0
    /\ specMechErrors = 0
    /\ twi = "idle"
    /\ ds3231 = PowerUpClock
    /\ cmdline = <<>>
    /\ entry = [rebootnack |-> 0, cstack |-> 0]
    /\ trace = <<>>
    /\ prompt_flag = -1
    /\ str = <<>>
    /\ csm = NoChecksum
    /\ vbefore = 0
    /\ vcall = NoCall
    /\ recv0_buf = NoInput
    /\ pc = "none"
    /\ peer = PowerUpPeer
    /\ \E gain \in Gains : \E pins \in Pins : \E datarate \in DataRates :
          adc = [pc |-> "config", gain |-> gain,
                 confighi |-> OR8(OR8(129, gain), pins),
                 configlo |-> OR8(datarate, 3), flag |-> 0,
                 ret |-> "none", voltage |-> "BADFLOAT", failed |-> FALSE]

ADCUnchanged ==
    UNCHANGED <<engine, rebootnack, cstack, pcmd, olat, specMechErrors,
                ds3231, cmdline, entry, trace, prompt_flag, str, csm, vbefore,
                vcall, recv0_buf, pc, peer>>

\* The write of the CONFIG register: a start and three bytes, each followed
\* by stop_TWI and return(ERROR) when it fails (f is the failing step, 0 when
\* none fails), then stop_TWI.
read_ADS1115_config(f) ==
    /\ adc.pc = "config"
    /\ twi' = "idle"
    /\ adc' = IF f # 0
              THEN [adc EXCEPT !.pc = "done", !.ret = "ERROR", !.failed = TRUE]
              ELSE [adc EXCEPT !.pc = "poll"]
    /\ ADCUnchanged

\* In the loop: start_TWI(addr, TWIREAD), whose return value is not looked
\* at (ok tells whether it succeeded), and flag = readlast_TWI(), whatever
\* the device or the bus gives.  adc.failed is not a variable of the code: it
\* records that a bus step of the call has failed.
read_ADS1115_poll(ok, flag) ==
    /\ adc.pc = "poll"
    /\ twi' = IF ok THEN "started" ELSE twi
    /\ adc' = [adc EXCEPT !.pc = "test", !.flag = flag,
                          !.failed = @ \/ ~ok]
    /\ ADCUnchanged

\* if (flag & 0b10000000) converting = NO; the loop goes round again
\* otherwise.  stop_TWI follows the loop.
read_ADS1115_test ==
    /\ adc.pc = "test"
    /\ IF Bit(adc.flag, 7) = 1
       THEN twi' = "idle" /\ adc' = [adc EXCEPT !.pc = "convert"]
       ELSE twi' = twi /\ adc' = [adc EXCEPT !.pc = "poll"]
    /\ ADCUnchanged

\* The read of the CONVERSION register: start, register select and repeated
\* start, their return values not looked at (f is the failing step, 0 when
\* none fails), the two bytes read, stop_TWI, the scaling and
\* return(NOERROR).
read_ADS1115_convert(f, highbyte, lowbyte) ==
    /\ adc.pc = "convert"
    /\ twi' = "idle"
    /\ adc' = [adc EXCEPT !.pc = "done", !.ret = "NOERROR",
                          !.voltage = [range |-> ScaleRange(adc.gain),
                                       value |-> Int16(highbyte, lowbyte)],
                          !.failed = @ \/ f # 0]
    /\ ADCUnchanged

NextADC ==
    \/ \E f \in 0..4 : read_ADS1115_config(f)
    \/ \E ok \in BOOLEAN : \E flag \in {0, 128} : read_ADS1115_poll(ok, flag)
    \/ read_ADS1115_test
    \/ \E f \in 0..3 : \E highbyte \in HighBytes : \E lowbyte \in LowBytes :
          read_ADS1115_convert(f, highbyte, lowbyte)

SpecADC == InitADC /\ [][NextADC]_vars

\* The processor goes on executing the routine; nothing is required of the
\* device's answers.
FairSpecADC == SpecADC /\ WF_vars(NextADC)

-----------------------------------------------------------------------------
(* main()'s loop and the receive interrupt                                 *)

\* Lines the host sends.
MaxRecv == 8

\* recv0_buf.head and recv0_buf.tail count whole lines here: the k-th line
\* received is the k-th line a commands() call copies.
InitMain ==
    /\ engine = "main.c"
    /\ rebootnack = 0
    /\ cstack = 0
    /\ pcmd = PowerUpPcmd
    /\ olat = 0
    /\ specMechErrors = 0
    /\ twi = "idle"
    /\ ds3231 = PowerUpClock
    /\ cmdline = <<>>
    /\ entry = [rebootnack |-> 0, cstack |-> 0]
    /\ trace = <<>>
    /\ prompt_flag = -1
    /\ str = <<>>
    /\ csm = NoChecksum
    /\ vbefore = 0
    /\ vcall = NoCall
    /\ adc = NoRead
    /\ recv0_buf = NoInput
    /\ pc = "poll"
    /\ peer = PowerUpPeer

MainUnchanged ==
    UNCHANGED <<engine, rebootnack, cstack, pcmd, olat, specMechErrors, twi,
                ds3231, cmdline, entry, prompt_flag, str, csm, vbefore, vcall,
                adc, peer>>

\* The receive interrupt, at any point of the main loop or of commands(): a
\* line is complete in the buffer and the flag is set.
LineAvailable ==
    /\ recv0_buf.head < MaxRecv
    /\ recv0_buf' = [recv0_buf EXCEPT !.head = @ + 1, !.done = YES]
    /\ UNCHANGED <<pc, trace>>
    /\ MainUnchanged

\* if (recv0_buf.done)
main_poll ==
    /\ pc = "poll"
    /\ recv0_buf.done # NO
    /\ pc' = "clear"
    /\ UNCHANGED <<recv0_buf, trace>>
    /\ MainUnchanged

\* recv0_buf.done = NO;
main_clear ==
    /\ pc = "clear"
    /\ recv0_buf' = [recv0_buf EXCEPT !.done = NO]
    /\ pc' = "commands"
    /\ UNCHANGED trace
    /\ MainUnchanged

\* commands(): it copies one line, up to its terminator, from the buffer's
\* tail and runs to its end.
main_commands_call ==
    /\ pc = "commands"
    /\ recv0_buf.tail < recv0_buf.head
    /\ recv0_buf' = [recv0_buf EXCEPT !.tail = @ + 1]
    /\ trace' = Append(trace, Ev("call", "commands", <<recv0_buf.tail + 1>>))
    /\ pc' = "poll"
    /\ MainUnchanged

MainLoop == main_poll \/ main_clear \/ main_commands_call

NextMain ==
    \/ LineAvailable
    \/ main_poll
    \/ main_clear
    \/ main_commands_call

SpecMain == InitMain /\ [][NextMain]_vars

\* The processor goes on executing the loop; the host may stop sending.
FairSpecMain == SpecMain /\ WF_vars(MainLoop)

-----------------------------------------------------------------------------
(* parse_cmd on a line in its buffer                                       *)

\* How far past the buffers' sizes the value and the id of a line go.
ValueOver == 11
IdOver == 1

ValueLens == {0, 1} \cup ((CVALUESIZE - 2)..(CVALUESIZE + ValueOver))

IdLens == 0..(CIDSIZE + IdOver)

LowerCase == <<"a", "b", "c", "d", "e", "f", "g", "h", "i", "j", "k", "l", "m",
               "n", "o", "p", "q", "r", "s", "t", "u", "v", "w", "x", "y", "z">>

Digits == <<"0", "1", "2", "3", "4", "5", "6", "7", "8", "9">>

\* A value of n bytes and an id of n bytes, each byte telling its position.
ValueBytes(n) == [k \in 1..n |-> LowerCase[((k - 1) % 26) + 1]]

IdBytes(n) == [k \in 1..n |-> Digits[(k % 10) + 1]]

\* Lines: non-letters, a verb, non-letters, an object, a value, ';' and an id,
\* each part present or not.
ParseLines ==
    {pre \o verb \o mid \o object \o ValueBytes(nv) \o id :
        pre \in {<<>>, <<"1", ";">>},
        verb \in {<<>>, <<"s">>},
        mid \in {<<>>, <<"2">>},
        object \in {<<>>, <<"T">>},
        nv \in ValueLens,
        id \in {<<>>} \cup {<<";">> \o IdBytes(ni) : ni \in IdLens}}

\* A slot a previous command left with no NUL in it.
StaleSlot ==
    [cverb |-> "x", cobject |-> "y",
     cvalue |-> [k \in 0..(CVALUESIZE - 1) |-> "#"],
     cid |-> [k \in 0..(CIDSIZE - 1) |-> "%"]]

\* What the buffer holds after the line's terminator: zeros, or bytes that
\* were never written (cmdline is a local array).
Tails == {<<>>, [k \in 1..(CIDSIZE + 1) |-> "~"]}

InitParse ==
    /\ engine = "main.c"
    /\ rebootnack = 0
    /\ cstack = 0
    /\ pcmd \in {[n |-> 0, s |-> ZeroSlot], [n |-> 0, s |-> StaleSlot]}
    /\ olat = 0
    /\ specMechErrors = 0
    /\ twi = "idle"
    /\ ds3231 = PowerUpClock
    /\ cmdline \in ParseLines
    /\ entry = [rebootnack |-> 0, cstack |-> 0]
    /\ trace = <<>>
    /\ prompt_flag = -1
    /\ str \in Tails
    /\ csm = NoChecksum
    /\ vbefore = 0
    /\ vcall = NoCall
    /\ adc = NoRead
    /\ recv0_buf = NoInput
    /\ pc = "none"
    /\ peer = PowerUpPeer

\* parse_cmd(cmdline, 0): ptr runs over the line, its terminator and what
\* the buffer holds after it.
ParseCmd ==
    /\ trace = <<>>
    /\ pcmd' = [n |-> 0, s |-> parse_cmd(cmdline \o <<NUL>> \o str, pcmd.s)]
    /\ trace' = <<Ev("parse", "parse_cmd", <<0>>)>>
    /\ UNCHANGED <<engine, rebootnack, cstack, olat, specMechErrors, twi,
                   ds3231, cmdline, entry, prompt_flag, str, csm, vbefore,
                   vcall, adc, recv0_buf, pc, peer>>

NextParse == ParseCmd

SpecParse == InitParse /\ [][NextParse]_vars

-----------------------------------------------------------------------------
(* A set-time line and then a report-time line, either engine              *)

\* The two digits of every number 00..99.
DigitPairs == {<<Digits[a + 1], Digits[b + 1]>> : a, b \in 0..9}

\* 20YY-MM-DDThh:mm:ss from its six two-digit fields.
TimeString(f) ==
    <<"2", "0">> \o f[1] \o <<"-">> \o f[2] \o <<"-">> \o f[3] \o <<"T">>
      \o f[4] \o <<":">> \o f[5] \o <<":">> \o f[6]

BaseFields == <<<<"2", "1">>, <<"0", "1">>, <<"2", "4">>,
                <<"1", "0">>, <<"0", "0">>, <<"0", "0">>>>

\* The times tried: each field in turn taking every pair of digits, and every
\* field 00 or 99.
TimeStrings ==
    {TimeString([BaseFields EXCEPT ![k] = p]) : k \in 1..6, p \in DigitPairs}
      \cup {TimeString(f) : f \in [1..6 -> {<<"0", "0">>, <<"9", "9">>}]}

SetLine(isotime) == <<"s", "t">> \o isotime

ReportTimeLine == <<"r", "t">>

\* The gate is Unlocked; str is the time the host is about to set.
InitClock ==
    /\ engine \in {"commands.c", "main.c"}
    /\ rebootnack = 0
    /\ cstack = 0
    /\ pcmd = PowerUpPcmd
    /\ olat = 0
    /\ specMechErrors = 0
    /\ twi = "idle"
    /\ ds3231 = PowerUpClock
    /\ cmdline = <<>>
    /\ entry = [rebootnack |-> 0, cstack |-> 0]
    /\ trace = <<>>
    /\ prompt_flag = -1
    /\ str \in TimeStrings
    /\ csm = NoChecksum
    /\ vbefore = 0
    /\ vcall = NoCall
    /\ adc = NoRead
    /\ recv0_buf = NoInput
    /\ pc = "none"
    /\ peer = PowerUpPeer

\* commands() on the line "st<time>".
SetTime(F) ==
    /\ trace = <<>>
    /\ Finish(Run(SetLine(str), F), SetLine(str))

\* commands() on the line "rt" that follows it, the clock not having ticked.
ReportTime(F) ==
    /\ cmdline = SetLine(str)
    /\ Finish(Run(ReportTimeLine, F), ReportTimeLine)

NextClock ==
    \/ \E F \in OracleSet(1, EngineFailPoints) : SetTime(F)
    \/ \E F \in OracleSet(1, EngineFailPoints) : ReportTime(F)

SpecClock == InitClock /\ [][NextClock]_vars

-----------------------------------------------------------------------------
(* Properties of the command engines (Spec)                                *)

HasKind(t, k) == \E n \in 1..Len(t) : t[n].k = k

IsPrompt(e, c) == e.k = "prompt" /\ e.a = c

IsSentence(e, tag) == e.k = "sentence" /\ e.a = tag

EndsInReset(t) == Len(t) >= 1 /\ t[Len(t)].k = "reset"

OnlyAwaitPrompt(t) == Len(t) = 1 /\ IsPrompt(t[1], "!")

\* The ERR sentence, then the ready prompt, as the last two things sent.
EndsInErrorClass(t) ==
    /\ Len(t) >= 2
    /\ IsSentence(t[Len(t) - 1], "ERR")
    /\ IsPrompt(t[Len(t)], ">")

\* The verb parse_cmd finds in a line.
VerbOf(line) == parse_cmd(line, ZeroSlot).cverb

\* C1: a line taken while the gate is Locked, other than the exact line "!",
\* resets the processor or gets the single '!' prompt, and the gate is Locked
\* afterwards.
C1_OnlyBangUnlocks ==
    (entry.rebootnack = 1 /\ trace # <<>> /\ cmdline # <<"!">>)
        => /\ rebootnack = 1
           /\ EndsInReset(trace) \/ OnlyAwaitPrompt(trace)

\* C2: while the gate is Locked, a line that does not start with '!' gets the
\* single '!' prompt and nothing else: no echo, no parse, the cursor, the
\* parsed slot, the ValveBank latch, the bus, the clock and the error bits
\* stay as they were, and the gate stays Locked.
C2_LockedRejectHasNoEffect ==
    [][(rebootnack = 1 /\ Byte(cmdline', 1) # "!")
          => /\ OnlyAwaitPrompt(trace')
             /\ rebootnack' = 1
             /\ cstack' = cstack
             /\ pcmd' = pcmd
             /\ olat' = olat
             /\ twi' = twi
             /\ ds3231' = ds3231
             /\ specMechErrors' = specMechErrors]_vars

\* A Locked gate with a non-zero ValveBank latch has just rejected "os".
C2_Witness ==
    /\ entry.rebootnack = 1
    /\ rebootnack = 1
    /\ cmdline = <<"o", "s">>
    /\ OnlyAwaitPrompt(trace)
    /\ olat # 0

\* C3 as stated: the gate starts Locked; from Unlocked a line leaves the gate
\* Unlocked unless the R verb resets the processor, and every line is echoed,
\* parsed and dispatched.
C3_EveryLineParsed ==
    /\ rebootnack = 1
    /\ [][rebootnack = 0
            => /\ rebootnack' = 0
                  \/ (EndsInReset(trace') /\ VerbOf(cmdline') = "R")
               /\ IsSentence(trace'[1], "CMD")
               /\ HasKind(trace', "parse")]_vars

\* C3 amended: as above, but the empty line under commands.c is echoed and
\* answered with '>' without being parsed or dispatched.
C3_GateStaysUnlocked ==
    /\ rebootnack = 1
    /\ [][rebootnack = 0
            => /\ rebootnack' = 0
                  \/ (EndsInReset(trace') /\ VerbOf(cmdline') = "R")
               /\ IsSentence(trace'[1], "CMD")
               /\ IF engine = "commands.c" /\ cmdline' = <<>>
                  THEN /\ Len(trace') = 2
                       /\ IsPrompt(trace'[2], ">")
                  ELSE /\ HasKind(trace', "parse")
                       /\ EndsInReset(trace')
                          \/ trace'[Len(trace')].k = "prompt"]_vars

\* An Unlocked gate took "!x": it was parsed, nothing was reset and the gate is
\* still Unlocked.
C3_Witness ==
    /\ entry.rebootnack = 0
    /\ cmdline = <<"!", "x">>
    /\ HasKind(trace, "parse")
    /\ ~HasKind(trace, "reset")
    /\ rebootnack = 0

\* C4 as stated: every line the Unlocked engine takes, the processor not being
\* reset, moves the cursor on by one modulo CSTACKSIZE.
C4_EveryLineAdvances ==
    [][(rebootnack = 0 /\ ~HasKind(trace', "reset"))
          => cstack' = (cstack + 1) % CSTACKSIZE]_vars

\* C4 amended: the cursor is always in 0..CSTACKSIZE-1; a line the Unlocked
\* engine takes, the processor not being reset, is parsed into the slot the
\* cursor names and moves the cursor on by one modulo CSTACKSIZE, except the
\* empty line under commands.c, which is not parsed and leaves the cursor.
C4_CursorAdvancesOnce ==
    [][/\ cstack' \in 0..(CSTACKSIZE - 1)
       /\ (rebootnack = 0 /\ ~HasKind(trace', "reset"))
            => IF engine = "commands.c" /\ cmdline' = <<>>
               THEN /\ cstack' = cstack
                    /\ ~HasKind(trace', "parse")
               ELSE /\ cstack' = (cstack + 1) % CSTACKSIZE
                    /\ \E n \in 1..Len(trace') :
                          /\ trace'[n].k = "parse"
                          /\ trace'[n].b = <<cstack>>]_vars

\* The tenth slot was parsed into and the cursor wrapped to 0.
C4_Witness ==
    /\ entry.rebootnack = 0
    /\ entry.cstack = CSTACKSIZE - 1
    /\ cstack = 0
    /\ ~HasKind(trace, "reset")
    /\ \E n \in 1..Len(trace) :
          trace[n].k = "parse" /\ trace[n].b = <<CSTACKSIZE - 1>>

\* C5: a non-empty line taken by the Unlocked engine whose verb is none of
\* c, o, m, r, s, t, R is answered with the ERR sentence and then '>'.
C5_UnknownVerbIsError ==
    (/\ entry.rebootnack = 0
     /\ cmdline # <<>>
     /\ trace # <<>>
     /\ VerbOf(cmdline) \notin {"c", "o", "m", "r", "s", "t", "R"})
        => EndsInErrorClass(trace)

\* C6: when the flag handed to send_prompt is ERRORPROMPT, the last things
\* sent are the ERR sentence and then '>', and no '!' prompt is sent.
C6_ErrorPromptIsErrThenReady ==
    prompt_flag = ERRORPROMPT
        => /\ EndsInErrorClass(trace)
           /\ \A n \in 1..Len(trace) : ~IsPrompt(trace[n], "!")

C10_BusFailureIsError ==
    (\E n \in 1..Len(trace) : trace[n].k = "ret" /\ trace[n].b # <<0>>)
        => prompt_flag = ERRORPROMPT

-----------------------------------------------------------------------------
(* Properties of the valves (SpecValves)                                   *)

\* The two bits of a cylinder's valve pair.
PairBits(mech) ==
    CASE mech = "s" -> {1, 5}
      [] mech = "l" -> {2, 6}
      [] mech = "r" -> {3, 7}

SetValvesReturns == SelectSeq(trace, LAMBDA e : e.k = "ret")

\* What one read-modify-write of set_valves makes of the byte old.
Actuation(old, bitmap, action) == AND8(OR8(old, bitmap), action)

AfterLeft ==
    Actuation(vbefore, LEFTBM,
              IF vcall.verb = "o" THEN LEFTOPEN ELSE LEFTCLOSE)

AfterLeftThenRight ==
    Actuation(AfterLeft, RIGHTBM,
              IF vcall.verb = "o" THEN RIGHTOPEN ELSE RIGHTCLOSE)

BusSteps ==
    LET t == SelectSeq(trace, LAMBDA e : e.k = "twi")
    IN  [n \in 1..Len(t) |-> t[n].a]

\* The steps of one read of a register, and the runs a read that fails and a
\* write (which stops after the step that fails) can leave on the bus.
ReadSteps == <<"start", "write", "start", "readlast", "stop">>

FailedReads == {SubSeq(ReadSteps, 1, k) : k \in 1..3}

WriteRuns ==
    {SubSeq(<<"start", "write", "write">>, 1, k) \o <<"stop">> : k \in 1..3}

\* C23: an actuation of one cylinder puts on the bus one read and then, when
\* the read succeeded, one write, and nothing else; when its read fails, at
\* the start, the register byte or the repeated start, nothing follows the
\* failed step, the latch is as it was and set_valves returns non-zero.
C23_FailedReadStopsActuation ==
    (vcall.mech \in {"s", "l", "r"} /\ vcall.verb # "")
        => /\ Len(SetValvesReturns) = 1
           /\ BusSteps \in FailedReads \cup {ReadSteps \o w : w \in WriteRuns}
           /\ BusSteps \in FailedReads
                => /\ SetValvesReturns[1].b # <<0>>
                   /\ olat = vbefore

\* Left was closed from a latch the closing would change; the read failed at
\* its register byte, and the latch is as it was.
C23_Witness ==
    /\ vcall.mech = "l"
    /\ vcall.verb = "c"
    /\ BusSteps = <<"start", "write">>
    /\ Actuation(vbefore, LEFTBM, LEFTCLOSE) # vbefore
    /\ olat = vbefore
    /\ SetValvesReturns[1].b # <<0>>

\* C17: when close_pneu or open_pneu has returned, every bus transaction its
\* drivers began has been ended with a stop: the bus is idle.
C17_TransactionsEndWithStop ==
    vcall # NoCall => twi = "idle"

-----------------------------------------------------------------------------
(* Properties of sequences of valve commands (SpecPairs)                   *)

LowBitOf(mech) == CASE mech = "s" -> 1 [] mech = "l" -> 2 [] mech = "r" -> 3

HighBitOf(mech) == LowBitOf(mech) + 4

\* C25: after init_PNEU and any sequence of open and close calls, transactions
\* failing or not, no cylinder's pair has both of its bits set, and bits 0 and
\* 4 of the latch are 0.
C25_NoPairHasBothBitsSet ==
    /\ \A mech \in {"s", "l", "r"} :
          ~(Bit(olat, LowBitOf(mech)) = 1 /\ Bit(olat, HighBitOf(mech)) = 1)
    /\ Bit(olat, 0) = 0
    /\ Bit(olat, 4) = 0

\* Shutter open, Left closed and Right open have been reached, the last call
\* having failed on the bus.
C25_Witness ==
    /\ olat = 74
    /\ vcall.verb # ""
    /\ ~vcall.ok

-----------------------------------------------------------------------------
(* Properties of the actuation function (SpecValves)                       *)

\* The masks open_pneu and close_pneu hand to set_valves for a cylinder.
BitmapOf(mech) ==
    CASE mech = "s" -> SHUTTERBM [] mech = "l" -> LEFTBM [] mech = "r" -> RIGHTBM

ActionOf(verb, mech) ==
    CASE mech = "s" -> IF verb = "o" THEN SHUTTEROPEN ELSE SHUTTERCLOSE
      [] mech = "l" -> IF verb = "o" THEN LEFTOPEN ELSE LEFTCLOSE
      [] mech = "r" -> IF verb = "o" THEN RIGHTOPEN ELSE RIGHTCLOSE

\* The latch set_valves leaves when it finds the byte old and the bus does
\* not fail.
Applied(old, verb, mech) ==
    set_valves([Machine(ZeroOracle) EXCEPT !.olat = old],
               BitmapOf(mech), ActionOf(verb, mech)).m.olat

\* C26: for every prior latch byte, a successful actuation of one cylinder
\* gives a byte that the same actuation leaves as it is, sets the named pair
\* to the pattern of the verb whatever the pair held, and gives the same byte
\* before or after an actuation of another cylinder.
C26_ActuationIdempotentAndCommutes ==
    \A mech \in {"s", "l", "r"} :
        (vcall.ok /\ vcall.verb # "" /\ vcall.mech = mech)
            => /\ olat = Applied(vbefore, vcall.verb, mech)
               /\ Applied(olat, vcall.verb, mech) = olat
               /\ Bit(olat, LowBitOf(mech)) = (IF vcall.verb = "o" THEN 1 ELSE 0)
               /\ Bit(olat, HighBitOf(mech)) = (IF vcall.verb = "o" THEN 0 ELSE 1)
               /\ \A other \in {"s", "l", "r"} \ {mech} : \A verb \in {"o", "c"} :
                     Applied(olat, verb, other)
                         = Applied(Applied(vbefore, verb, other),
                                   vcall.verb, mech)

\* Left was opened from a latch with every bit set.
C26_Witness ==
    /\ vcall.ok
    /\ vcall.verb = "o"
    /\ vcall.mech = "l"
    /\ vbefore = 255
    /\ olat = 174

-----------------------------------------------------------------------------
(* Properties of parse_cmd (SpecParse)                                     *)

\* The least position in S, 0 when S is empty.
FirstOf(S) == IF S = {} THEN 0 ELSE CHOOSE p \in S : \A q \in S : p <= q

\* The letters A-Z and a-z.
Letters ==
    {"A", "B", "C", "D", "E", "F", "G", "H", "I", "J", "K", "L", "M",
     "N", "O", "P", "Q", "R", "S", "T", "U", "V", "W", "X", "Y", "Z",
     "a", "b", "c", "d", "e", "f", "g", "h", "i", "j", "k", "l", "m",
     "n", "o", "p", "q", "r", "s", "t", "u", "v", "w", "x", "y", "z"}

\* Positions in a line: its first letter, the next letter after it, and the
\* first ';' after that one; 0 when there is none.
VerbPos(line) == FirstOf({p \in 1..Len(line) : line[p] \in Letters})

ObjectPos(line) ==
    IF VerbPos(line) = 0 THEN 0
    ELSE FirstOf({p \in (VerbPos(line) + 1)..Len(line) : line[p] \in Letters})

DelimiterPos(line) ==
    IF ObjectPos(line) = 0 THEN 0
    ELSE FirstOf({p \in (ObjectPos(line) + 1)..Len(line) : line[p] = ";"})

\* The bytes after the object up to the ';' or the end of the line.
ValueField(line) ==
    IF ObjectPos(line) = 0 THEN <<>>
    ELSE SubSeq(line, ObjectPos(line) + 1,
                IF DelimiterPos(line) = 0 THEN Len(line)
                ELSE DelimiterPos(line) - 1)

\* The bytes after the ';' up to the end of the line.
IdField(line) ==
    IF DelimiterPos(line) = 0 THEN <<>>
    ELSE SubSeq(line, DelimiterPos(line) + 1, Len(line))

\* The first n bytes of s, all of s when it is shorter.
Take(s, n) == SubSeq(s, 1, IF Len(s) < n THEN Len(s) ELSE n)

\* C12: when the value field of the parsed line is longer than 40 bytes, the
\* stored value is its first 40 bytes and cvalue holds its terminator.
C12_LongValueTruncatedTo40 ==
    (trace # <<>> /\ Len(ValueField(cmdline)) > 40)
        => /\ cvalueStr(pcmd.s) = Take(ValueField(cmdline), 40)
           /\ \E k \in 0..(CVALUESIZE - 1) : pcmd.s.cvalue[k] = NUL

\* C13: the stored id is the bytes after the first ';' that follows the
\* object, up to the end of the line and at most 8 of them; it is empty when
\* there is no such ';'.
C13_IdIsFieldAfterDelimiter ==
    trace # <<>> => cidStr(pcmd.s) = Take(IdField(cmdline), 8)

\* C20: the verb is the first letter of the line and the object the next
\* letter after it, '?' where the line has none; when the line has no object
\* letter the stored value and id are empty.
C20_VerbAndObjectAreFirstLetters ==
    trace # <<>>
        => /\ pcmd.s.cverb = IF VerbPos(cmdline) = 0 THEN "?"
                             ELSE cmdline[VerbPos(cmdline)]
           /\ pcmd.s.cobject = IF ObjectPos(cmdline) = 0 THEN "?"
                               ELSE cmdline[ObjectPos(cmdline)]
           /\ ObjectPos(cmdline) = 0
                => /\ cvalueStr(pcmd.s) = <<>>
                   /\ cidStr(pcmd.s) = <<>>

\* "1;s2" was parsed into a slot that held no NUL: verb 's' behind the
\* non-letters, no object.
C20_Witness ==
    /\ trace # <<>>
    /\ cmdline = <<"1", ";", "s", "2">>
    /\ pcmd.s.cverb = "s"
    /\ pcmd.s.cobject = "?"
    /\ pcmd.s.cvalue[1] # NUL
    /\ pcmd.s.cid[1] # NUL

\* The slot parse_cmd leaves for a line when the slot held zeros before and
\* the buffer holds zeros after the line.
ParsedAlone(line) == parse_cmd(line, ZeroSlot)

\* C21: the verb, the object, and the value and the id as strings, are those
\* the line gives by itself, whatever the slot held before and whatever the
\* buffer holds behind the line's terminator.
C21_SlotDependsOnLineOnly ==
    trace # <<>>
        => /\ pcmd.s.cverb = ParsedAlone(cmdline).cverb
           /\ pcmd.s.cobject = ParsedAlone(cmdline).cobject
           /\ cvalueStr(pcmd.s) = cvalueStr(ParsedAlone(cmdline))
           /\ cidStr(pcmd.s) = cidStr(ParsedAlone(cmdline))

\* C31: on return from parse_cmd cvalue and cid each hold a NUL inside their
\* own array, so the value read as a string has at most 40 bytes and the id
\* at most 8: a strlen or %s that starts in a field ends in it.
C31_FieldsHoldTheirTerminator ==
    trace # <<>>
        => /\ \E k \in 0..(CVALUESIZE - 1) : pcmd.s.cvalue[k] = NUL
           /\ \E k \in 0..(CIDSIZE - 1) : pcmd.s.cid[k] = NUL
           /\ Len(cvalueStr(pcmd.s)) < CVALUESIZE
           /\ Len(cidStr(pcmd.s)) < CIDSIZE

-----------------------------------------------------------------------------
(* Properties of set and report (Spec)                                     *)

\* The last call took a line with the gate Unlocked, parsed it and did not
\* reset the processor.
Dispatched ==
    /\ entry.rebootnack = 0
    /\ HasKind(trace, "parse")
    /\ ~HasKind(trace, "reset")

\* The object letter of the line, '?' when it has none.
ObjectOf(line) ==
    IF ObjectPos(line) = 0 THEN "?" ELSE line[ObjectPos(line)]

\* put_time was called, and something was put on the bus for the clock.
PutTimeCalled ==
    \E n \in 1..Len(trace) : trace[n].k = "ret" /\ trace[n].a = "put_time"

ClockOnBus ==
    \E n \in 1..Len(trace) : trace[n].k = "twi" /\ trace[n].b = <<"DS3231">>

\* set's rule: put_time is called exactly when the object is 't' and the
\* value has 19 characters; otherwise the flag is ERRORPROMPT and the clock
\* is not addressed.
SetRule ==
    (Dispatched /\ VerbOf(cmdline) = "s")
        => /\ PutTimeCalled
                <=> (ObjectOf(cmdline) = "t" /\ Len(ValueField(cmdline)) = 19)
           /\ ~PutTimeCalled
                => (prompt_flag = ERRORPROMPT /\ ~ClockOnBus)

ExampleSetLine ==
    <<"s", "t", "2", "0", "2", "1", "-", "0", "1", "-", "2", "4", "T",
      "1", "0", ":", "0", "0", ":", "0", "0", "Z">>

Sent(t) == SelectSeq(t, LAMBDA e : e.k \in {"sentence", "prompt", "reset"})

\* C18: a line with verb 'R' taken while Unlocked is echoed, answered by one
\* '>' prompt and followed by the reset, with nothing on the bus and nothing
\* else sent; and after every reset the gate is Locked and the cursor is 0.
C18_RebootLineIsEchoPromptReset ==
    /\ (entry.rebootnack = 0 /\ trace # <<>> /\ VerbOf(cmdline) = "R")
          => /\ Len(Sent(trace)) = 3
             /\ IsSentence(Sent(trace)[1], "CMD")
             /\ IsPrompt(Sent(trace)[2], ">")
             /\ Sent(trace)[3].k = "reset"
             /\ ~HasKind(trace, "twi")
    /\ EndsInReset(trace) => (rebootnack = 1 /\ cstack = 0)

\* C22: an empty line taken while Unlocked is echoed and answered with the
\* '>' prompt alone: no ERR sentence is sent and nothing is put on the bus.
C22_EmptyLineIsNeutral ==
    (entry.rebootnack = 0 /\ trace # <<>> /\ cmdline = <<>>)
        => /\ IsSentence(trace[1], "CMD")
           /\ IsPrompt(trace[Len(trace)], ">")
           /\ \A n \in 1..Len(trace) : ~IsSentence(trace[n], "ERR")
           /\ ~HasKind(trace, "twi")

\* Where the trace holds a prompt.
PromptPositions == {n \in 1..Len(trace) : trace[n].k = "prompt"}

\* C24: a line that does not end in a reset is answered by exactly one prompt,
\* the last thing sent for it; and the line "!" taken while Locked is answered
\* by the '>' prompt and nothing else, neither echoed nor parsed.
C24_OnePromptPerLine ==
    /\ (trace # <<>> /\ ~HasKind(trace, "reset"))
          => PromptPositions = {Len(trace)}
    /\ (trace # <<>> /\ entry.rebootnack = 1 /\ cmdline = <<"!">>)
          => /\ Len(Sent(trace)) = 1
             /\ IsPrompt(Sent(trace)[1], ">")
             /\ ~HasKind(trace, "parse")

\* The step took a line that is no valve command: any line but "!" while the
\* gate was Locked, or, Unlocked, a line whose verb is none of o, c, R and m
\* (r, s, t, an unknown verb, no verb at all).
NoValveLineTaken ==
    /\ trace' # <<>>
    /\ \/ entry'.rebootnack = 1 /\ cmdline' # <<"!">>
       \/ entry'.rebootnack = 0 /\ VerbOf(cmdline') \notin {"o", "c", "R", "m"}

\* The call put nothing on the bus for the port expander.
ExpanderUntouched ==
    \A n \in 1..Len(trace') :
        trace'[n].k = "twi" => trace'[n].b # <<"HIGHCURRENT">>

-----------------------------------------------------------------------------
(* Properties of the two builds side by side (SpecBoth)                    *)

\* What a call sent to the host: its sentences (the echo among them) and its
\* prompts, in order.
Outputs(t) == SelectSeq(t, LAMBDA e : e.k \in {"sentence", "prompt"})

\* C32: after every line of every sequence of shared lines the two builds
\* have the same gate state and the same cursor, and their calls sent the
\* same sentences and prompts in the same order.
C32_BuildsAgree ==
    trace # <<>>
        => /\ rebootnack = peer.rebootnack
           /\ cstack = peer.cstack
           /\ Outputs(trace) = Outputs(peer.trace)

-----------------------------------------------------------------------------
(* Properties of the open and close commands (SpecDispatch)                *)

\* The cylinders an object letter names.
Named(object) ==
    CASE object = "b" -> {"l", "r"}
      [] object \in {"s", "l", "r"} -> {object}
      [] OTHER -> {}

\* The lower and the upper bit of a cylinder's pair.
LowBit(mech) == CHOOSE b \in PairBits(mech) : \A c \in PairBits(mech) : b <= c

HighBit(mech) == CHOOSE b \in PairBits(mech) : \A c \in PairBits(mech) : b >= c

\* The pair is at the open pattern (lower bit set, upper clear), or at the
\* closed pattern (the reverse).
PairAt(verb, mech) ==
    /\ Bit(olat, LowBit(mech)) = (IF verb = "o" THEN 1 ELSE 0)
    /\ Bit(olat, HighBit(mech)) = (IF verb = "o" THEN 0 ELSE 1)

NoBusFailure ==
    \A n \in 1..Len(trace) : trace[n].k = "ret" => trace[n].b = <<0>>

PlainPrompt ==
    /\ IsPrompt(trace[Len(trace)], ">")
    /\ \A n \in 1..Len(trace) : ~IsSentence(trace[n], "ERR")

\* C15: an 'o' or 'c' line whose object is s, l, r or b gets the flag
\* GREATERPROMPT and the plain '>' prompt and, the bus not failing, leaves
\* each named cylinder's pair at the open or the closed pattern; with any
\* other object, '?' included, the flag is ERRORPROMPT, nothing is put on the
\* bus and the latch is as it was.
C15_ValveCommandDrivesNamedPair ==
    (Dispatched /\ VerbOf(cmdline) \in {"o", "c"})
        => IF ObjectOf(cmdline) \in {"s", "l", "r", "b"}
           THEN /\ prompt_flag = GREATERPROMPT
                /\ PlainPrompt
                /\ NoBusFailure
                     => /\ \A mech \in Named(ObjectOf(cmdline)) :
                              PairAt(VerbOf(cmdline), mech)
                        /\ Len(SelectSeq(trace, LAMBDA e :
                                e.k = "ret" /\ e.a = "set_valves"))
                             = Cardinality(Named(ObjectOf(cmdline)))
           ELSE /\ prompt_flag = ERRORPROMPT
                /\ ~HasKind(trace, "twi")
                /\ olat = vbefore

\* "os" was taken with the shutter's pair at the closed pattern: bit 1 is now
\* set, bit 5 clear, and '>' was sent.
C15_Witness ==
    /\ Dispatched
    /\ cmdline = <<"o", "s">>
    /\ Bit(vbefore, 1) = 0
    /\ Bit(vbefore, 5) = 1
    /\ Bit(olat, 1) = 1
    /\ Bit(olat, 5) = 0
    /\ IsPrompt(trace[Len(trace)], ">")

-----------------------------------------------------------------------------
(* Properties of the report command (SpecReport)                           *)

\* The sentence a report object asks for.
TagOf(object) ==
    CASE object = "B" -> "BTM"
      [] object = "e" -> "ENV"
      [] object = "t" -> "TIM"
      [] object = "v" -> "VAC"
      [] object = "V" -> "VER"
      [] OTHER -> "none"

\* Where the trace holds a sentence other than the echo.
ReportPositions ==
    {n \in 1..Len(trace) : trace[n].k = "sentence" /\ trace[n].a # "CMD"}

\* get_time put its error text in place of the time.
ClockReadFailed ==
    \E n \in 1..Len(trace) :
        IsSentence(trace[n], "TIM") /\ trace[n].b[1] = <<"DS3231 read error">>

\* C16: a report line whose object is B, e, t, v or V sends, after the echo
\* and before the '>' prompt, exactly one sentence, the one of its object,
\* whose last field is the id of the line, and the flag is GREATERPROMPT
\* whether the device read failed or not; with any other object no sentence
\* but the echo is sent by report and the flag is ERRORPROMPT.
C16_ReportSendsOneSentence ==
    (Dispatched /\ VerbOf(cmdline) = "r")
        => IF ObjectOf(cmdline) \in {"B", "e", "t", "v", "V"}
           THEN /\ prompt_flag = GREATERPROMPT
                /\ IsPrompt(trace[Len(trace)], ">")
                /\ IsSentence(trace[1], "CMD")
                /\ Cardinality(ReportPositions) = 1
                /\ \A n \in ReportPositions :
                      /\ 1 < n
                      /\ n < Len(trace)
                      /\ trace[n].a = TagOf(ObjectOf(cmdline))
                      /\ trace[n].b[Len(trace[n].b)] = IdField(cmdline)
           ELSE /\ prompt_flag = ERRORPROMPT
                /\ \A n \in ReportPositions : trace[n].a = "ERR"

\* "rv;042" was answered by a VAC sentence ending in 042, then '>'.
C16_Witness ==
    /\ Dispatched
    /\ cmdline = <<"r", "v", ";", "0", "4", "2">>
    /\ \E n \in 2..(Len(trace) - 1) :
          /\ IsSentence(trace[n], "VAC")
          /\ trace[n].b[Len(trace[n].b)] = <<"0", "4", "2">>
    /\ IsPrompt(trace[Len(trace)], ">")

\* "rt" was answered by a TIM sentence and '>' although the clock's read
\* failed on the bus.
C16_ReadFailureReached ==
    /\ Dispatched
    /\ ObjectOf(cmdline) = "t"
    /\ ClockReadFailed
    /\ prompt_flag = GREATERPROMPT

-----------------------------------------------------------------------------
(* Properties of the clock's time conversions (SpecClock)                  *)

DigitValue(c) == CHOOSE d \in 0..9 : Digits[d + 1] = c

\* The BCD byte of two decimal digits.
BCD(hi, lo) == 16 * DigitValue(hi) + DigitValue(lo)

\* The seven registers of a time: seconds, minutes, hours, day of week 1,
\* date, month, year, each in BCD.
RegistersOf(s) ==
    <<BCD(s[18], s[19]), BCD(s[15], s[16]), BCD(s[12], s[13]), 1,
      BCD(s[9], s[10]), BCD(s[6], s[7]), BCD(s[3], s[4])>>

PutTimeSucceeded ==
    \E n \in 1..Len(trace) :
        trace[n].k = "ret" /\ trace[n].a = "put_time" /\ trace[n].b = <<0>>

\* The time fields of the TIM sentences sent.
ReportedTimes ==
    {trace[n].b[1] : n \in {k \in 1..Len(trace) : IsSentence(trace[k], "TIM")}}

\* C27: for a time 20YY-MM-DDThh:mm:ss of decimal digits, convert_iso2ds
\* gives the BCD registers with day of week 1, convert_ds2iso of them gives
\* the time followed by 'Z', a successful "st" leaves those registers in the
\* clock, and an "rt" that reads them reports the time that was set.
C27_TimeRoundTrip ==
    /\ convert_iso2ds(str) = RegistersOf(str)
    /\ convert_ds2iso(convert_iso2ds(str)) = str \o <<"Z">>
    /\ (cmdline = SetLine(str) /\ PutTimeSucceeded)
          => ds3231 = RegistersOf(str)
    /\ (cmdline = ReportTimeLine /\ ds3231 = RegistersOf(str)
          /\ ~ClockReadFailed)
          => ReportedTimes = {str \o <<"Z">>}

\* 2021-01-24T10:00:59 was set and then reported.
C27_Witness ==
    /\ cmdline = ReportTimeLine
    /\ str = TimeString([BaseFields EXCEPT ![6] = <<"5", "9">>])
    /\ ds3231 = <<89, 0, 16, 1, 36, 1, 33>>
    /\ ReportedTimes = {str \o <<"Z">>}

-----------------------------------------------------------------------------
(* Properties of read_ADS1115 (FairSpecADC)                                *)

\* C19: a command's device read runs to completion whatever the device
\* answers: read_ADS1115, once called, returns, so that commands() goes on to
\* send_prompt and the main loop to the next line.
C19_DeviceReadReturns == <>(adc.pc = "done")

\* C28: read_ADS1115 returns NOERROR with a voltage only when no bus step of
\* the call failed; when one failed it returns ERROR and *voltage is
\* BADFLOAT.
C28_ErrorWhenAnyStepFails ==
    adc.pc = "done"
        => IF adc.failed
           THEN adc.ret = "ERROR" /\ adc.voltage = "BADFLOAT"
           ELSE adc.ret = "NOERROR" /\ adc.voltage # "BADFLOAT"

-----------------------------------------------------------------------------
(* Properties of the main loop (FairSpecMain)                              *)

\* C29: every line the interrupt completed is in the end taken by a
\* commands() call of its own: from some point on no received line is left
\* in the buffer.
C29_EveryLineConsumed ==
    <>[](recv0_buf.tail = recv0_buf.head)

\* commands() is never called with no whole line in the buffer.
CommandsFindsALine ==
    pc = "commands" => recv0_buf.tail < recv0_buf.head

-----------------------------------------------------------------------------
(* Properties of checksum_NMEA (SpecNMEA)                                  *)

\* The XOR of the bytes lo..hi of s.
RECURSIVE XorRange(_, _, _)
XorRange(s, lo, hi) ==
    IF lo > hi THEN 0
    ELSE IF lo = hi THEN s[lo]
    ELSE XOR8(XorRange(s, lo, (lo + hi) \div 2),
              XorRange(s, ((lo + hi) \div 2) + 1, hi))

UpperHexDigits == <<48, 49, 50, 51, 52, 53, 54, 55, 56, 57,
                    65, 66, 67, 68, 69, 70>>

\* The framing the body's checksum x calls for: '*', two hex digits, CR, LF.
Framing(x) ==
    <<42, UpperHexDigits[(x \div 16) + 1], UpperHexDigits[(x % 16) + 1],
      13, 10>>

\* C8: when checksum_NMEA returns, the string is the body followed by '*', the
\* two upper-case hex digits of the XOR of the body's bytes after the first,
\* CR and LF, whatever the body's length.
C8_ChecksumOfWholeBody ==
    csm.pc = "return"
        => str = SubSeq(str, 1, Len(str) - 5)
                   \o Framing(XorRange(str, 2, Len(str) - 5))

====
